---- MODULE Spec2Model ----
(***************************************************************************)
(* Offline-first task synchronisation: the local task store, the sync      *)
(* queue, the local create/update/delete operations of TaskService and the *)
(* sync() cycle of SyncService.  Every `await` of the source is a point    *)
(* where another handler may run, so each action below is the code between *)
(* two awaits (the awaited database call or HTTP call together with the    *)
(* synchronous code that follows it).                                      *)
(***************************************************************************)
EXTENDS Integers, Sequences, FiniteSets, TLC

\* ---------------------------------------------------------------- bounds
MaxEntries == 2      \* queue entries ever enqueued in one behaviour
MaxCycles == 3       \* sync() cycles ever started in one behaviour
MaxBatchSize == 2    \* largest configured SYNC_BATCH_SIZE explored
MaxTime == 3         \* latest updated_at of a version in a conflict

\* ------------------------------------------------------ program constants
maxRetries == 3

NULL == "NULL"
ABSENT == "ABSENT"

TaskSeq == <<"t1", "t2">>          \* the uuids createTask draws, in order
TaskIds == {TaskSeq[n] : n \in 1..Len(TaskSeq)}
Syncers == 1..2                    \* frames of concurrent sync() calls
ServerIds == {"srv_1"}             \* identifiers the remote may assign
Titles == {"a", "b"}               \* contents of a version of a task

\* messages stored in error_message / reported in result.errors
TransportError == "Network Error"
StoreError == "SQLITE_ERROR"
SentinelId == "N/A"                \* task_id of the error record of line 112
ItemError == "Unknown error"
ConflictNote == "Conflict resolved using last-write-wins"

VARIABLES
    tasks,        \* table tasks: TaskIds -> row (exists = FALSE: no such row)
    sync_queue,   \* table sync_queue, rows in insertion (rowid) order
    nextId,       \* number of queue ids handed out so far (uuidv4 is fresh)
    now,          \* the wall clock; it has moved on at every enqueue
    batchSize,    \* SyncService.batchSize, read from the environment
    client,       \* the local operation in flight, if any
    sync,         \* Syncers -> the frame of that sync() call
    cycles,       \* sync() calls started so far
    submitted,    \* ids of the queue entries sent to the remote so far
    failures,     \* entry id -> deliveries of that entry that have failed
    localTask,    \* _resolveConflict: the argument localTask
    serverTask,   \* _resolveConflict: the argument serverTask
    resolved,     \* what _resolveConflict(localTask, serverTask) returned
    resolvedSwapped, \* what _resolveConflict(serverTask, localTask) returned
    syncStatus,   \* the frame of the getSyncStatus() call
    setupErrors,  \* the results of the sync() calls whose due-list read failed
    postSync      \* the POST /sync request in flight and its last answer

\* the variables outside the task store, the queue and the sync() calls
others == <<localTask, serverTask, resolved, resolvedSwapped, syncStatus,
            setupErrors, postSync>>

vars == <<tasks, sync_queue, nextId, now, batchSize, client, sync, cycles,
          submitted, failures, others>>

\* ---------------------------------------------------------------- helpers
Range(s) == {s[n] : n \in 1..Len(s)}

RECURSIVE SelectSeqBy(_, _)
\* the subsequence of s whose elements are in the set keep
SelectSeqBy(s, keep) ==
    IF s = <<>> THEN <<>>
    ELSE IF Head(s) \in keep THEN <<Head(s)>> \o SelectSeqBy(Tail(s), keep)
         ELSE SelectSeqBy(Tail(s), keep)

Min(a, b) == IF a < b THEN a ELSE b

\* A timestamp column holds a reading of the clock, or 0 for SQL NULL: the
\* clock is past 0 from the first enqueue on.
NoTask == [exists |-> FALSE, is_deleted |-> FALSE, sync_status |-> NULL,
           server_id |-> NULL, last_synced_at |-> 0]

\* ------------------------------------------------------------ TaskService
\* a variant of the existence check that also finds soft-deleted rows:
\* SELECT * FROM tasks WHERE id = ?
getTaskIncludingDeleted(t) == IF tasks[t].exists THEN tasks[t] ELSE NoTask

\* getTask: SELECT * FROM tasks WHERE id = ? AND is_deleted = 0
\* (NoTask stands for "no row": the caller's `if (!existingTask)`)
getTask(t) == IF tasks[t].exists /\ ~tasks[t].is_deleted THEN tasks[t] ELSE NoTask

\* addToSyncQueue: INSERT INTO sync_queue (..., created_at, retry_count)
\* VALUES (..., now, 0)
addToSyncQueue(q, id, t, op, at) ==
    Append(q, [id |-> id, task_id |-> t, operation |-> op, created_at |-> at,
               retry_count |-> 0, error_message |-> NULL])

ClientIdle == [pc |-> "idle", task |-> NULL, op |-> NULL]

\* createTask up to its first await: INSERT INTO tasks with a fresh uuid
CreateTask(t) ==
    /\ client.pc = "idle"
    /\ nextId < MaxEntries
    /\ \E n \in 1..Len(TaskSeq) :
          /\ t = TaskSeq[n]
          /\ ~tasks[t].exists
          /\ \A m \in 1..(n - 1) : tasks[TaskSeq[m]].exists
    /\ tasks' = [tasks EXCEPT ![t] =
                    [exists |-> TRUE, is_deleted |-> FALSE,
                     sync_status |-> "pending", server_id |-> NULL,
                     last_synced_at |-> 0]]
    /\ client' = [pc |-> "enqueue", task |-> t, op |-> "create"]
    /\ UNCHANGED <<sync_queue, nextId, now, batchSize, sync, cycles,
                   submitted, failures,
                   others>>

\* updateTask: getTask, then UPDATE tasks SET ..., sync_status = 'pending'
UpdateTask(t) ==
    /\ client.pc = "idle"
    /\ nextId < MaxEntries
    /\ IF ~getTask(t).exists
       THEN UNCHANGED <<tasks, client>>                  \* return null
       ELSE /\ tasks' = [tasks EXCEPT ![t].sync_status = "pending"]
            /\ client' = [pc |-> "enqueue", task |-> t, op |-> "update"]
    /\ UNCHANGED <<sync_queue, nextId, now, batchSize, sync, cycles,
                   submitted, failures,
                   others>>

\* deleteTask: getTask, then UPDATE tasks SET is_deleted = 1,
\* sync_status = 'pending'
DeleteTask(t) ==
    /\ client.pc = "idle"
    /\ nextId < MaxEntries
    /\ IF ~getTask(t).exists
       THEN UNCHANGED <<tasks, client>>                  \* return false
       ELSE /\ tasks' = [tasks EXCEPT ![t].is_deleted = TRUE,
                                      ![t].sync_status = "pending"]
            /\ client' = [pc |-> "enqueue", task |-> t, op |-> "delete"]
    /\ UNCHANGED <<sync_queue, nextId, now, batchSize, sync, cycles,
                   submitted, failures,
                   others>>

\* the last await of createTask / updateTask / deleteTask: the INSERT of
\* addToSyncQueue, stamped with the clock read just before it
Enqueue ==
    /\ client.pc = "enqueue"
    /\ now' = now + 1
    /\ sync_queue' = addToSyncQueue(sync_queue, nextId + 1, client.task,
                                    client.op, now')
    /\ nextId' = nextId + 1
    /\ client' = ClientIdle
    /\ UNCHANGED <<tasks, batchSize, sync, cycles, submitted, failures,
                   others>>

\* ------------------------------------------------------------ SyncService
\* a variant that starts pessimistic: success: false until the end of sync()
NewResultUnset == [success |-> FALSE, synced_items |-> 0, failed_items |-> 0,
                   errors |-> <<>>]

\* lines 24-29: const result = {success: true, ...}
NewResult == [success |-> TRUE, synced_items |-> 0, failed_items |-> 0,
              errors |-> <<>>]

\* the frame of a sync() call: where it waits (pc), its locals queueItems, i,
\* the response items not yet handled (resp), the position in the failed
\* batch (k) and result; threw records that a step of this call raised an
\* error, handled the ids of the entries handleSyncError was called with
SyncIdle == [pc |-> "idle", queueItems |-> <<>>, i |-> 0, resp |-> <<>>,
             k |-> 0, result |-> NewResult, threw |-> FALSE, handled |-> {}]

\* a frame is free again once its call has returned (`return result`)
Frame(f) == IF f.pc = "done" THEN SyncIdle ELSE f

\* rows.map(row => ({...})): the SyncQueueItem built from a row, with the
\* fields sync() goes on to read
QueueItem(row) == [id |-> row.id, task_id |-> row.task_id,
                   operation |-> row.operation,
                   created_at |-> row.created_at,
                   retry_count |-> row.retry_count]

\* s without its n-th element
RemoveAt(s, n) == SubSeq(s, 1, n - 1) \o SubSeq(s, n + 1, Len(s))

\* a variant ordering the rows latest first: ORDER BY created_at DESC
RECURSIVE OrderByCreatedAtDesc(_)
OrderByCreatedAtDesc(s) ==
    IF s = <<>> THEN <<>>
    ELSE LET n == CHOOSE n \in 1..Len(s) : \A m \in 1..Len(s) :
                     \/ s[n].created_at > s[m].created_at
                     \/ s[n].created_at = s[m].created_at /\ n <= m
         IN <<s[n]>> \o OrderByCreatedAtDesc(RemoveAt(s, n))

\* ORDER BY created_at ASC (rows with equal created_at stay in rowid order)
RECURSIVE OrderByCreatedAt(_)
OrderByCreatedAt(s) ==
    IF s = <<>> THEN <<>>
    ELSE LET n == CHOOSE n \in 1..Len(s) : \A m \in 1..Len(s) :
                     \/ s[n].created_at < s[m].created_at
                     \/ s[n].created_at = s[m].created_at /\ n <= m
         IN <<s[n]>> \o OrderByCreatedAt(RemoveAt(s, n))

\* getSyncQueueItems: SELECT * FROM sync_queue WHERE retry_count < ?
\* ORDER BY created_at ASC
getSyncQueueItems(q) ==
    LET due == OrderByCreatedAt(
                   SelectSeqBy(q, {e \in Range(q) : e.retry_count < maxRetries}))
    IN [n \in 1..Len(due) |-> QueueItem(due[n])]

\* queueItems.slice(i, i + batchSize)
Batch(f) == SubSeq(f.queueItems, f.i + 1, Min(f.i + batchSize, Len(f.queueItems)))

\* batch.find(item => item.task_id === client_id)
Find(batch, t) ==
    batch[CHOOSE n \in 1..Len(batch) :
             /\ batch[n].task_id = t
             /\ \A m \in 1..(n - 1) : batch[m].task_id # t]

\* what the remote may answer for one submitted entry of record t.  The
\* identifiers of a success/conflict item are independent of everything
\* local and are read by updateSyncStatus only, so they are drawn there
\* (ItemIds) and are NULL/ABSENT until then.
ItemAnswers(t) ==
    {[client_id |-> t, status |-> st, server_id |-> NULL,
      resolved_server_id |-> ABSENT,
      error |-> IF st = "error" THEN ItemError ELSE NULL] :
        st \in {"success", "conflict", "error"}}

\* the server_id of a success/conflict item and the server_id field of its
\* resolved_data (ABSENT: resolved_data has no such key; NULL: it is null)
ItemIds == ServerIds \X ({ABSENT, NULL} \cup ServerIds)

\* BatchSyncResponse.processed_items: one item per submitted entry
Responses(batch) ==
    {r \in [1..Len(batch) -> UNION {ItemAnswers(t) : t \in TaskIds}] :
        \A n \in 1..Len(batch) : r[n].client_id = batch[n].task_id}

\* { server_id: processedItem.server_id, ...processedItem.resolved_data }
ServerData(item) ==
    IF item.resolved_server_id = ABSENT THEN item.server_id
    ELSE item.resolved_server_id

\* updateSyncStatus(taskId, 'synced', serverData)
updateSyncStatus(tk, t, sid, at) ==
    IF ~tk[t].exists THEN tk
    ELSE [tk EXCEPT ![t].sync_status = "synced",
                    ![t].last_synced_at = at,
                    ![t].server_id = IF sid # NULL THEN sid ELSE @]

\* a variant without the WHERE clause: DELETE FROM sync_queue
removeFromSyncQueueAll(q, t) == <<>>

\* removeFromSyncQueue: DELETE FROM sync_queue WHERE task_id = ?
removeFromSyncQueue(q, t) ==
    SelectSeqBy(q, {e \in Range(q) : e.task_id # t})

\* a variant that counts in the database row instead of the item read at the
\* start of the cycle: SET retry_count = retry_count + 1
handleSyncErrorQueueInPlace(q, item, msg) ==
    [n \in 1..Len(q) |->
        IF q[n].id = item.id
        THEN [q[n] EXCEPT !.retry_count = @ + 1, !.error_message = msg]
        ELSE q[n]]

\* handleSyncError, first statement: UPDATE sync_queue SET retry_count = ?,
\* error_message = ? WHERE id = ?   (the same in both branches)
handleSyncErrorQueue(q, item, msg) ==
    [n \in 1..Len(q) |->
        IF q[n].id = item.id
        THEN [q[n] EXCEPT !.retry_count = item.retry_count + 1,
                          !.error_message = msg]
        ELSE q[n]]

\* handleSyncError, second statement: the status written to the task
handleSyncErrorStatus(item) ==
    IF item.retry_count + 1 >= maxRetries THEN "failed" ELSE "error"

handleSyncErrorTask(tk, item) ==
    IF ~tk[item.task_id].exists THEN tk
    ELSE [tk EXCEPT ![item.task_id].sync_status = handleSyncErrorStatus(item)]

\* a variant that takes only Success for the success path
ItemPcSuccessOnly(item) ==
    IF item.status = "success" THEN "status" ELSE "errq"

\* where sync() waits when it starts on a response item (line 48)
ItemPc(item) ==
    IF item.status \in {"success", "conflict"} THEN "status" ELSE "errq"

\* a variant without line 107: success is left as the loop set it
NextBatchKeepSuccess(f) ==
    IF f.i + batchSize < Len(f.queueItems)
    THEN [f EXCEPT !.i = f.i + batchSize, !.pc = "send", !.resp = <<>>,
                   !.k = 0]
    ELSE [f EXCEPT !.pc = "done"]

\* the end of the for loop over the batches (line 40), lines 107 and 119
NextBatch(f) ==
    IF f.i + batchSize < Len(f.queueItems)
    THEN [f EXCEPT !.i = f.i + batchSize, !.pc = "send", !.resp = <<>>,
                   !.k = 0]
    ELSE [f EXCEPT !.pc = "done",
                   !.result.success = (f.result.failed_items = 0)]

\* the next iteration of `for (const processedItem of ...)`; resp holds the
\* items not yet handled, the current one first
NextItem(f) ==
    IF Len(f.resp) > 1
    THEN [f EXCEPT !.resp = Tail(f.resp), !.pc = ItemPc(f.resp[2])]
    ELSE NextBatch(f)

\* the next iteration of `for (const item of batch)` in the catch block; k is
\* the position of the current item in the batch
NextFailed(f) ==
    IF f.k < Len(Batch(f))
    THEN [f EXCEPT !.k = f.k + 1, !.pc = "berrq"]
    ELSE NextBatch(f)

\* the entry the remote answered with the current response item: the
\* response has one item per submitted entry, in submission order
Answered(f) == Batch(f)[Len(Batch(f)) - Len(f.resp) + 1]

\* lines 61-71: the counters and the conflict note, then on to the next item
AfterRemove(f) ==
    LET item == Head(f.resp)
        note == IF item.status = "conflict"
                THEN <<[task_id |-> item.client_id, operation |-> "sync",
                        error |-> ConflictNote]>>
                ELSE <<>>
    IN NextItem([f EXCEPT !.result.synced_items = @ + 1,
                          !.result.errors = @ \o note])

\* lines 81-87
AfterItemError(f) ==
    LET item == Head(f.resp)
    IN NextItem([f EXCEPT
           !.result.failed_items = @ + 1,
           !.result.errors = Append(@, [task_id |-> item.client_id,
                                        operation |-> "sync",
                                        error |-> item.error])])

\* lines 95-101
AfterBatchError(f) ==
    LET item == Batch(f)[f.k]
    IN NextFailed([f EXCEPT
           !.result.failed_items = @ + 1,
           !.result.errors = Append(@, [task_id |-> item.task_id,
                                        operation |-> item.operation,
                                        error |-> TransportError])])

\* lines 33-40: the frame once the due list has been read
AfterRead(items) ==
    IF Len(items) = 0
    THEN [SyncIdle EXCEPT !.pc = "done"]                  \* line 36
    ELSE [SyncIdle EXCEPT !.pc = "send", !.queueItems = items]

\* sync() up to the end of its first await: the due list is read
SyncRead(p) ==
    /\ sync[p].pc = "idle"
    /\ \A q \in Syncers : q < p => sync[q].pc # "idle"   \* lowest free frame
    /\ cycles < MaxCycles
    /\ cycles' = cycles + 1
    /\ sync' = [sync EXCEPT ![p] =
                   Frame(AfterRead(getSyncQueueItems(sync_queue)))]
    /\ UNCHANGED <<tasks, sync_queue, nextId, now, batchSize, client,
                   submitted, failures,
                   others>>

\* processBatch resolves with the remote's answer
ProcessBatch(p) ==
    /\ sync[p].pc = "send"
    /\ \E r \in Responses(Batch(sync[p])) :
          /\ sync' = [sync EXCEPT ![p] = [@ EXCEPT !.resp = r,
                                                   !.pc = ItemPc(r[1])]]
          /\ failures' = [id \in DOMAIN failures |->
                IF \E n \in 1..Len(r) : /\ Batch(sync[p])[n].id = id
                                        /\ ItemPc(r[n]) = "errq"
                THEN failures[id] + 1 ELSE failures[id]]
    /\ submitted' = submitted \cup {e.id : e \in Range(Batch(sync[p]))}
    /\ UNCHANGED <<tasks, sync_queue, nextId, now, batchSize, client, cycles,
                   others>>

\* processBatch rejects (network failure, non-2xx): the catch of line 90
ProcessBatchThrows(p) ==
    /\ sync[p].pc = "send"
    /\ sync' = [sync EXCEPT ![p] = [@ EXCEPT !.result.success = FALSE,
                                            !.threw = TRUE,
                                            !.k = 1, !.pc = "berrq"]]
    /\ submitted' = submitted \cup {e.id : e \in Range(Batch(sync[p]))}
    /\ failures' = [id \in DOMAIN failures |->
          IF \E e \in Range(Batch(sync[p])) : e.id = id
          THEN failures[id] + 1 ELSE failures[id]]
    /\ UNCHANGED <<tasks, sync_queue, nextId, now, batchSize, client, cycles,
                   others>>

\* lines 50-57: await updateSyncStatus(client_id, 'synced', {...})
UpdateSyncStatus(p) ==
    /\ sync[p].pc = "status"
    /\ \E ids \in ItemIds :
          LET item == [Head(sync[p].resp) EXCEPT
                          !.server_id = ids[1], !.resolved_server_id = ids[2]]
          IN /\ tasks' = updateSyncStatus(tasks, item.client_id,
                                          ServerData(item), now)
             /\ sync' = [sync EXCEPT ![p].pc = "remove",
                                     ![p].resp = <<item>> \o Tail(@)]
    /\ UNCHANGED <<sync_queue, nextId, now, batchSize, client, cycles,
                   submitted, failures,
                   others>>

\* line 60: await removeFromSyncQueue(client_id), then lines 61-71
RemoveFromSyncQueue(p) ==
    /\ sync[p].pc = "remove"
    /\ sync_queue' = removeFromSyncQueue(sync_queue,
                                         Head(sync[p].resp).client_id)
    /\ sync' = [sync EXCEPT ![p] = Frame(AfterRemove(sync[p]))]
    /\ UNCHANGED <<tasks, nextId, now, batchSize, client, cycles, submitted,
                   failures,
                   others>>

\* lines 74-79: batch.find, then the first await of handleSyncError
ItemErrorQueue(p) ==
    /\ sync[p].pc = "errq"
    /\ LET f == sync[p]
           item == Head(f.resp)
           queueItem == Find(Batch(f), item.client_id)
       IN /\ sync_queue' = handleSyncErrorQueue(sync_queue, queueItem,
                                                item.error)
          /\ sync' = [sync EXCEPT ![p].pc = "errt",
                                  ![p].handled = @ \cup {queueItem.id}]
    /\ UNCHANGED <<tasks, nextId, now, batchSize, client, cycles, submitted,
                   failures,
                   others>>

\* the second await of handleSyncError, then lines 81-87
ItemErrorTask(p) ==
    /\ sync[p].pc = "errt"
    /\ LET f == sync[p]
           queueItem == Find(Batch(f), Head(f.resp).client_id)
       IN tasks' = handleSyncErrorTask(tasks, queueItem)
    /\ sync' = [sync EXCEPT ![p] = Frame(AfterItemError(sync[p]))]
    /\ UNCHANGED <<sync_queue, nextId, now, batchSize, client, cycles,
                   submitted, failures,
                   others>>

\* line 94: the first await of handleSyncError(item, error)
BatchErrorQueue(p) ==
    /\ sync[p].pc = "berrq"
    /\ LET f == sync[p] IN
       /\ sync_queue' = handleSyncErrorQueue(sync_queue, Batch(f)[f.k],
                                             TransportError)
       /\ sync' = [sync EXCEPT ![p].pc = "berrt",
                               ![p].handled = @ \cup {Batch(f)[f.k].id}]
    /\ UNCHANGED <<tasks, nextId, now, batchSize, client, cycles, submitted,
                   failures,
                   others>>

\* the second await of handleSyncError, then lines 95-101
BatchErrorTask(p) ==
    /\ sync[p].pc = "berrt"
    /\ tasks' = handleSyncErrorTask(tasks, Batch(sync[p])[sync[p].k])
    /\ sync' = [sync EXCEPT ![p] = Frame(AfterBatchError(sync[p]))]
    /\ UNCHANGED <<sync_queue, nextId, now, batchSize, client, cycles,
                   submitted, failures,
                   others>>

\* ----------------------------------------------------- failing store calls
\* a variant without the outer try of sync(): only lines 43-103 catch
HandlerInnerOnly(pc) ==
    IF pc \in {"send", "status", "remove", "errq", "errt"} THEN "inner"
    ELSE "none"

\* the catch clause around the await a sync() call waits at: the read of the
\* due list (line 33) and the awaits of the catch block (line 94) are inside
\* the outer try only, the awaits of lines 44-79 inside the inner try
Handler(pc) ==
    IF pc \in {"send", "status", "remove", "errq", "errt"} THEN "inner"
    ELSE IF pc \in {"idle", "berrq", "berrt"} THEN "outer"
    ELSE "none"

\* a variant whose outer catch also counts the error as a failed item
ThrownCounted(f, msg) ==
    IF Handler(f.pc) = "inner"
    THEN [f EXCEPT !.result.success = FALSE, !.threw = TRUE, !.resp = <<>>,
                   !.k = 1, !.pc = "berrq"]
    ELSE [f EXCEPT !.result.success = FALSE,
                   !.result.failed_items = @ + 1,
                   !.result.errors = Append(@, [task_id |-> SentinelId,
                                                operation |-> "sync",
                                                error |-> msg]),
                   !.threw = TRUE, !.pc = "done"]

\* the frame once the error raised by the await at f.pc has been caught:
\* lines 90-93 (inner catch), lines 109-119 (outer catch)
Thrown(f, msg) ==
    IF Handler(f.pc) = "inner"
    THEN [f EXCEPT !.result.success = FALSE, !.threw = TRUE, !.resp = <<>>,
                   !.k = 1, !.pc = "berrq"]
    ELSE IF Handler(f.pc) = "outer"
    THEN [f EXCEPT !.result.success = FALSE,
                   !.result.errors = Append(@, [task_id |-> SentinelId,
                                                operation |-> "sync",
                                                error |-> msg]),
                   !.threw = TRUE, !.pc = "done"]
    ELSE [f EXCEPT !.threw = TRUE, !.pc = "escaped"]

\* line 33: the SELECT of getSyncQueueItems fails
SyncReadFails(p) ==
    /\ sync[p].pc = "idle"
    /\ \A q \in Syncers : q < p => sync[q].pc # "idle"
    /\ cycles < MaxCycles
    /\ cycles' = cycles + 1
    /\ sync' = [sync EXCEPT ![p] = Frame(Thrown(sync[p], StoreError))]
    /\ setupErrors' = Append(setupErrors, Thrown(sync[p], StoreError).result)
    /\ UNCHANGED <<tasks, sync_queue, nextId, now, batchSize, client,
                   submitted, failures, localTask, serverTask, resolved,
                   resolvedSwapped, syncStatus, postSync>>

\* the UPDATE or DELETE a sync() call waits for fails (updateSyncStatus,
\* removeFromSyncQueue, either statement of handleSyncError)
StoreWriteFails(p) ==
    /\ sync[p].pc \in {"status", "remove", "errq", "errt", "berrq", "berrt"}
    /\ sync' = [sync EXCEPT ![p] = Frame(Thrown(sync[p], StoreError))]
    /\ UNCHANGED <<tasks, sync_queue, nextId, now, batchSize, client, cycles,
                   submitted, failures, others>>

\* ----------------------------------------------------------- getSyncStatus
\* no getSyncStatus() call is running
StatusIdle == [pc |-> "idle"]

\* a variant that also counts the records given up: sync_status IN
\* ('pending', 'error', 'failed')
PendingSyncCountWithFailed(tk) ==
    Cardinality({t \in TaskIds : /\ tk[t].exists
                                 /\ tk[t].sync_status \in
                                       {"pending", "error", "failed"}})

\* SELECT COUNT(*) FROM tasks WHERE sync_status IN ('pending', 'error')
PendingSyncCount(tk) ==
    Cardinality({t \in TaskIds : /\ tk[t].exists
                                 /\ tk[t].sync_status \in {"pending", "error"}})

\* SELECT last_synced_at FROM tasks WHERE last_synced_at IS NOT NULL
\* ORDER BY last_synced_at DESC LIMIT 1   (0: no row, the result is null)
LastSyncTimestamp(tk) ==
    LET stamps == {tk[t].last_synced_at : t \in {u \in TaskIds : tk[u].exists}}
    IN IF stamps \subseteq {0} THEN 0
       ELSE CHOOSE a \in stamps : \A b \in stamps : a >= b

\* lines 276-280: the count of the records waiting for a sync
StatusPendingCount ==
    /\ syncStatus.pc = "idle"
    /\ syncStatus' = [pc |-> "last",
                      pending_sync_count |-> PendingSyncCount(tasks)]
    /\ UNCHANGED <<tasks, sync_queue, nextId, now, batchSize, client, sync,
                   cycles, submitted, failures, localTask, serverTask,
                   resolved, resolvedSwapped, setupErrors, postSync>>

\* lines 282-288: the latest last_synced_at
StatusLastSync ==
    /\ syncStatus.pc = "last"
    /\ syncStatus' = [pc |-> "probe",
                      pending_sync_count |-> syncStatus.pending_sync_count,
                      last_sync_timestamp |-> LastSyncTimestamp(tasks)]
    /\ UNCHANGED <<tasks, sync_queue, nextId, now, batchSize, client, sync,
                   cycles, submitted, failures, localTask, serverTask,
                   resolved, resolvedSwapped, setupErrors, postSync>>

\* line 291 and checkConnectivity: the probe answers, or it fails and the
\* catch of line 311 makes it false
StatusCheckConnectivity ==
    /\ syncStatus.pc = "probe"
    /\ \E online \in BOOLEAN :
          syncStatus' = [pc |-> "size",
                         pending_sync_count |-> syncStatus.pending_sync_count,
                         last_sync_timestamp |-> syncStatus.last_sync_timestamp,
                         is_online |-> online]
    /\ UNCHANGED <<tasks, sync_queue, nextId, now, batchSize, client, sync,
                   cycles, submitted, failures, localTask, serverTask,
                   resolved, resolvedSwapped, setupErrors, postSync>>

\* lines 294-304: the snapshot getSyncStatus() returns
StatusSnapshot(f, q) ==
    [pending_sync_count |-> f.pending_sync_count,
     last_sync_timestamp |-> f.last_sync_timestamp,
     is_online |-> f.is_online,
     sync_queue_size |-> Len(q)]

\* lines 294-304: the size of the queue is read and the call returns
StatusQueueSize ==
    /\ syncStatus.pc = "size"
    /\ syncStatus' = StatusIdle
    /\ UNCHANGED <<tasks, sync_queue, nextId, now, batchSize, client, sync,
                   cycles, submitted, failures, localTask, serverTask,
                   resolved, resolvedSwapped, setupErrors, postSync>>

\* one of the three db.get calls rejects: getSyncStatus has no try, so the
\* rejection leaves it
StatusQueryFails ==
    /\ syncStatus.pc \in {"idle", "last", "size"}
    /\ syncStatus' = [pc |-> "escaped"]
    /\ UNCHANGED <<tasks, sync_queue, nextId, now, batchSize, client, sync,
                   cycles, submitted, failures, localTask, serverTask,
                   resolved, resolvedSwapped, setupErrors, postSync>>

\* GET /status: the catch of the route answers 500 for the rejected call
StatusRejected ==
    /\ syncStatus.pc = "escaped"
    /\ syncStatus' = StatusIdle
    /\ UNCHANGED <<tasks, sync_queue, nextId, now, batchSize, client, sync,
                   cycles, submitted, failures, localTask, serverTask,
                   resolved, resolvedSwapped, setupErrors, postSync>>

\* --------------------------------------------------------------- resolver
\* Date.prototype.getTime(): the milliseconds of a Date
getTime(d) == d.time

\* the versions of one task a conflict may be about
Versions ==
    [id : {TaskSeq[1]}, updated_at : [time : 1..MaxTime], title : Titles]

\* a variant that keeps the local version on equal timestamps
_resolveConflictLocalOnTie(local, server) ==
    IF getTime(server.updated_at) > getTime(local.updated_at) THEN server
    ELSE local

\* a variant that never looks at the timestamps: the server version wins
_resolveConflictServerWins(local, server) == server

\* _resolveConflict(localTask, serverTask)
_resolveConflict(local, server) ==
    LET localTime == getTime(local.updated_at)
        serverTime == getTime(server.updated_at)
    IN IF localTime > serverTime THEN local
       ELSE IF serverTime > localTime THEN server
       ELSE server

\* no conflict is being resolved
NoConflict ==
    /\ localTask = NULL
    /\ serverTask = NULL
    /\ resolved = <<>>
    /\ resolvedSwapped = <<>>

ResolveConflict ==
    /\ resolved = <<>>
    /\ resolved' = <<_resolveConflict(localTask, serverTask)>>
    /\ UNCHANGED <<tasks, sync_queue, nextId, now, batchSize, client, sync,
                   cycles, submitted, failures, localTask, serverTask,
                   resolvedSwapped, syncStatus, setupErrors, postSync>>

\* the same call with the two versions in the other order
ResolveConflictSwapped ==
    /\ resolvedSwapped = <<>>
    /\ resolvedSwapped' = <<_resolveConflict(serverTask, localTask)>>
    /\ UNCHANGED <<tasks, sync_queue, nextId, now, batchSize, client, sync,
                   cycles, submitted, failures, localTask, serverTask,
                   resolved, syncStatus, setupErrors, postSync>>

\* ------------------------------------------------ routes/sync.ts: POST /sync
\* the handler of one POST /sync request: where it waits (pc), the HTTP
\* status it answered with (0: none yet), what the probe returned (online)
\* and the number of sync() calls started when the request came in (cycle)
PostSyncIdle == [pc |-> "idle", status |-> 0, online |-> FALSE, cycle |-> 0]

\* a variant without the guard of lines 17-23: sync() is called whatever the
\* probe returned
AfterProbeUnguarded(isOnline, f) ==
    [f EXCEPT !.pc = "sync", !.online = isOnline]

\* lines 15-26: if (!isOnline) return res.status(503)...; else go on to
\* syncService.sync()
AfterProbe(isOnline, f) ==
    IF ~isOnline
    THEN [f EXCEPT !.pc = "idle", !.status = 503, !.online = FALSE]
    ELSE [f EXCEPT !.pc = "sync", !.online = TRUE]

\* a POST /sync request comes in: the handler starts the connectivity probe
PostSync ==
    /\ postSync.pc = "idle"
    /\ postSync' = [pc |-> "probe", status |-> 0, online |-> FALSE,
                    cycle |-> cycles]
    /\ UNCHANGED <<tasks, sync_queue, nextId, now, batchSize, client, sync,
                   cycles, submitted, failures, localTask, serverTask,
                   resolved, resolvedSwapped, syncStatus, setupErrors>>

\* checkConnectivity (syncService.ts:307-314) returns: true if GET /health
\* was answered, false if it threw
PostSyncProbed ==
    /\ postSync.pc = "probe"
    /\ \E isOnline \in BOOLEAN : postSync' = AfterProbe(isOnline, postSync)
    /\ UNCHANGED <<tasks, sync_queue, nextId, now, batchSize, client, sync,
                   cycles, submitted, failures, localTask, serverTask,
                   resolved, resolvedSwapped, syncStatus, setupErrors>>

\* line 26: the handler calls syncService.sync()
PostSyncCall(p) ==
    /\ postSync.pc = "sync"
    /\ cycles = postSync.cycle
    /\ SyncRead(p)

\* lines 26-29: sync() has returned its result (it never rejects, and
\* neither does checkConnectivity, so the catch of lines 30-37 has nothing
\* to catch) and the handler answers with it
PostSyncAnswer ==
    /\ postSync.pc = "sync"
    /\ cycles # postSync.cycle
    /\ \A p \in Syncers : sync[p].pc = "idle"
    /\ postSync' = [postSync EXCEPT !.pc = "idle", !.status = 200]
    /\ UNCHANGED <<tasks, sync_queue, nextId, now, batchSize, client, sync,
                   cycles, submitted, failures, localTask, serverTask,
                   resolved, resolvedSwapped, syncStatus, setupErrors>>

\* ------------------------------------------------------------------ system
\* the frames in which a sync() call is running
Active == {p \in Syncers : sync[p].pc # "idle"}

\* the store, the queue and the services after construction
InitStore ==
    /\ tasks = [t \in TaskIds |-> NoTask]
    /\ sync_queue = <<>>
    /\ nextId = 0
    /\ now = 0
    /\ batchSize \in 1..MaxBatchSize
    /\ client = ClientIdle
    /\ sync = [p \in Syncers |-> SyncIdle]
    /\ cycles = 0
    /\ submitted = {}
    /\ failures = [id \in 1..MaxEntries |-> 0]

Init ==
    /\ InitStore
    /\ NoConflict
    /\ syncStatus = StatusIdle
    /\ setupErrors = <<>>
    /\ postSync = PostSyncIdle

Next ==
    \/ \E t \in TaskIds : CreateTask(t)
    \/ \E t \in TaskIds : UpdateTask(t)
    \/ \E t \in TaskIds : DeleteTask(t)
    \/ Enqueue
    \/ \E p \in Syncers : SyncRead(p)
    \/ \E p \in Syncers : ProcessBatch(p)
    \/ \E p \in Syncers : ProcessBatchThrows(p)
    \/ \E p \in Syncers : UpdateSyncStatus(p)
    \/ \E p \in Syncers : RemoveFromSyncQueue(p)
    \/ \E p \in Syncers : ItemErrorQueue(p)
    \/ \E p \in Syncers : ItemErrorTask(p)
    \/ \E p \in Syncers : BatchErrorQueue(p)
    \/ \E p \in Syncers : BatchErrorTask(p)

Spec == Init /\ [][Next]_vars

\* the same system with a store whose calls may fail, one sync() call at a
\* time
OneSyncer == {1}

NextFaulty ==
    \/ \E t \in TaskIds : CreateTask(t)
    \/ \E t \in TaskIds : UpdateTask(t)
    \/ \E t \in TaskIds : DeleteTask(t)
    \/ Enqueue
    \/ \E p \in OneSyncer : SyncRead(p)
    \/ \E p \in OneSyncer : SyncReadFails(p)
    \/ \E p \in OneSyncer : ProcessBatch(p)
    \/ \E p \in OneSyncer : ProcessBatchThrows(p)
    \/ \E p \in OneSyncer : UpdateSyncStatus(p)
    \/ \E p \in OneSyncer : RemoveFromSyncQueue(p)
    \/ \E p \in OneSyncer : ItemErrorQueue(p)
    \/ \E p \in OneSyncer : ItemErrorTask(p)
    \/ \E p \in OneSyncer : BatchErrorQueue(p)
    \/ \E p \in OneSyncer : BatchErrorTask(p)
    \/ \E p \in OneSyncer : StoreWriteFails(p)

SpecFaulty == Init /\ [][NextFaulty]_vars

\* the system with GET /status requests, one sync() call at a time
NextStatus ==
    \/ \E t \in TaskIds : CreateTask(t)
    \/ \E t \in TaskIds : UpdateTask(t)
    \/ \E t \in TaskIds : DeleteTask(t)
    \/ Enqueue
    \/ \E p \in OneSyncer : SyncRead(p)
    \/ \E p \in OneSyncer : ProcessBatch(p)
    \/ \E p \in OneSyncer : ProcessBatchThrows(p)
    \/ \E p \in OneSyncer : UpdateSyncStatus(p)
    \/ \E p \in OneSyncer : RemoveFromSyncQueue(p)
    \/ \E p \in OneSyncer : ItemErrorQueue(p)
    \/ \E p \in OneSyncer : ItemErrorTask(p)
    \/ \E p \in OneSyncer : BatchErrorQueue(p)
    \/ \E p \in OneSyncer : BatchErrorTask(p)
    \/ StatusPendingCount
    \/ StatusLastSync
    \/ StatusCheckConnectivity
    \/ StatusQueueSize
    \/ StatusQueryFails
    \/ StatusRejected

SpecStatus == Init /\ [][NextStatus]_vars

\* the system when nothing overlaps: a local operation runs only while no
\* sync() call is running, and a sync() call starts only when no local
\* operation is in flight and runs alone
NextSerial ==
    \/ Active = {} /\ \E t \in TaskIds : CreateTask(t)
    \/ Active = {} /\ \E t \in TaskIds : UpdateTask(t)
    \/ Active = {} /\ \E t \in TaskIds : DeleteTask(t)
    \/ Active = {} /\ Enqueue
    \/ client.pc = "idle" /\ \E p \in OneSyncer : SyncRead(p)
    \/ \E p \in OneSyncer : ProcessBatch(p)
    \/ \E p \in OneSyncer : ProcessBatchThrows(p)
    \/ \E p \in OneSyncer : UpdateSyncStatus(p)
    \/ \E p \in OneSyncer : RemoveFromSyncQueue(p)
    \/ \E p \in OneSyncer : ItemErrorQueue(p)
    \/ \E p \in OneSyncer : ItemErrorTask(p)
    \/ \E p \in OneSyncer : BatchErrorQueue(p)
    \/ \E p \in OneSyncer : BatchErrorTask(p)

SpecSerial == Init /\ [][NextSerial]_vars

\* the services constructed over a database file that an earlier run has left:
\* every record in it was accepted by the server, live or soft-deleted, and
\* nothing is queued
Stored(deleted) ==
    [exists |-> TRUE, is_deleted |-> deleted, sync_status |-> "synced",
     server_id |-> "srv_1", last_synced_at |-> 1]

InitLocal ==
    /\ tasks \in {f \in [TaskIds -> {NoTask, Stored(FALSE), Stored(TRUE)}] :
                    \A n \in 1..Len(TaskSeq) :
                       f[TaskSeq[n]].exists
                          => \A m \in 1..(n - 1) : f[TaskSeq[m]].exists}
    /\ sync_queue = <<>>
    /\ nextId = 0
    /\ now = 1
    /\ batchSize \in 1..MaxBatchSize
    /\ client = ClientIdle
    /\ sync = [p \in Syncers |-> SyncIdle]
    /\ cycles = 0
    /\ submitted = {}
    /\ failures = [id \in 1..MaxEntries |-> 0]
    /\ NoConflict
    /\ syncStatus = StatusIdle
    /\ setupErrors = <<>>
    /\ postSync = PostSyncIdle

NextLocal ==
    \/ \E t \in TaskIds : CreateTask(t)
    \/ \E t \in TaskIds : UpdateTask(t)
    \/ \E t \in TaskIds : DeleteTask(t)
    \/ Enqueue
    \/ \E p \in OneSyncer : SyncRead(p)
    \/ \E p \in OneSyncer : ProcessBatch(p)
    \/ \E p \in OneSyncer : ProcessBatchThrows(p)
    \/ \E p \in OneSyncer : UpdateSyncStatus(p)
    \/ \E p \in OneSyncer : RemoveFromSyncQueue(p)
    \/ \E p \in OneSyncer : ItemErrorQueue(p)
    \/ \E p \in OneSyncer : ItemErrorTask(p)
    \/ \E p \in OneSyncer : BatchErrorQueue(p)
    \/ \E p \in OneSyncer : BatchErrorTask(p)

SpecLocal == InitLocal /\ [][NextLocal]_vars

\* the system driven through POST /sync: sync() is called by the handler
\* only, one request at a time
NextRoute ==
    \/ \E t \in TaskIds : CreateTask(t)
    \/ \E t \in TaskIds : UpdateTask(t)
    \/ \E t \in TaskIds : DeleteTask(t)
    \/ Enqueue
    \/ PostSync
    \/ PostSyncProbed
    \/ \E p \in OneSyncer : PostSyncCall(p)
    \/ \E p \in OneSyncer : ProcessBatch(p)
    \/ \E p \in OneSyncer : ProcessBatchThrows(p)
    \/ \E p \in OneSyncer : UpdateSyncStatus(p)
    \/ \E p \in OneSyncer : RemoveFromSyncQueue(p)
    \/ \E p \in OneSyncer : ItemErrorQueue(p)
    \/ \E p \in OneSyncer : ItemErrorTask(p)
    \/ \E p \in OneSyncer : BatchErrorQueue(p)
    \/ \E p \in OneSyncer : BatchErrorTask(p)
    \/ PostSyncAnswer

SpecRoute == Init /\ [][NextRoute]_vars

\* _resolveConflict applied to every pair of versions
InitResolve ==
    /\ InitStore
    /\ localTask \in Versions
    /\ serverTask \in Versions
    /\ resolved = <<>>
    /\ resolvedSwapped = <<>>
    /\ syncStatus = StatusIdle
    /\ setupErrors = <<>>
    /\ postSync = PostSyncIdle

NextResolve ==
    \/ ResolveConflict
    \/ ResolveConflictSwapped

SpecResolve == InitResolve /\ [][NextResolve]_vars

TypeOK ==
    /\ nextId \in 0..MaxEntries
    /\ cycles \in 0..MaxCycles

\* ------------------------------------------------------------------ claims
IdsIn(q) == {e.id : e \in Range(q)}
RetryIn(q, id) == (CHOOSE e \in Range(q) : e.id = id).retry_count
ErrorIn(q, id) == (CHOOSE e \in Range(q) : e.id = id).error_message
DueIn(q) == IdsIn(getSyncQueueItems(q))
DeadLetters == {e \in Range(sync_queue) : e.retry_count >= maxRetries}

\* frame p takes the step
Stepping(p) == sync[p]' # sync[p]

\* the entry whose failed delivery frame p is handling (pc errq, errt: the
\* entry answered with an error item; pc berrq, berrt: the entry of the
\* rejected batch)
FailedEntry(p) ==
    IF sync[p].pc \in {"errq", "errt"} THEN Answered(sync[p])
    ELSE Batch(sync[p])[sync[p].k]

\* the entry frame p is about to call handleSyncError with (pc errq: the one
\* batch.find returns; pc berrq: the current entry of the rejected batch)
HandledEntry(p) ==
    IF sync[p].pc = "errq"
    THEN Find(Batch(sync[p]), Head(sync[p].resp).client_id)
    ELSE Batch(sync[p])[sync[p].k]

\* C1 - at-least-once delivery: no step of a sync() call removes an entry
\* from the queue unless that very entry has been submitted to the remote in
\* some batch; in particular an entry enqueued after the call read the due
\* list is not removed by the success path of that call.
C1_RemovedOnlyIfSubmitted ==
    [][\A p \in Syncers : \A id \in IdsIn(sync_queue) :
          Stepping(p) /\ id \notin IdsIn(sync_queue') => id \in submitted]_vars

\* C2 - sync() calls are serialized: at most one call is between reading
\* the due list and finishing its last batch.
C2_Serialized == Cardinality(Active) <= 1

\* C3 - the retry_count of a queue entry never decreases.
C3_RetryMonotone ==
    [][\A id \in IdsIn(sync_queue) \cap IdsIn(sync_queue') :
          RetryIn(sync_queue', id) >= RetryIn(sync_queue, id)]_vars

\* C4 - every queue entry has 0 <= retry_count <= maxRetries.
C4_RetryBounded ==
    \A e \in Range(sync_queue) :
        e.retry_count >= 0 /\ e.retry_count <= maxRetries

\* an entry has used up its retries
C4_Witness == \E e \in Range(sync_queue) : e.retry_count = maxRetries

\* C5 - escalation threshold: when the handling of a failed delivery of an
\* entry completes and the entry has then failed exactly maxRetries times, it
\* is in the queue with retry_count = maxRetries, its record is Failed and it
\* is not due any more; when it has then failed maxRetries - 1 times, its
\* record is Error and it is still due.
C5_Escalation ==
    [][\A p \in Syncers : \A id \in 1..MaxEntries : \A t \in TaskIds :
          /\ Stepping(p)
          /\ sync[p].pc \in {"errt", "berrt"}
          /\ FailedEntry(p).id = id
          /\ FailedEntry(p).task_id = t
          => /\ failures'[id] = maxRetries =>
                    /\ id \in IdsIn(sync_queue')
                    /\ RetryIn(sync_queue', id) = maxRetries
                    /\ tasks'[t].sync_status = "failed"
                    /\ id \notin DueIn(sync_queue')
             /\ failures'[id] = maxRetries - 1 =>
                    /\ tasks'[t].sync_status = "error"
                    /\ id \in DueIn(sync_queue')]_vars

\* C6 - Failed is terminal: while a record is Failed, no step other than a
\* local create/update/delete changes its sync_status, and no batch with an
\* entry of that record is submitted.
C6_FailedIsTerminal ==
    [][\A t \in TaskIds :
          tasks[t].sync_status = "failed" /\ client' = client =>
             /\ tasks'[t].sync_status = "failed"
             /\ \A p \in Syncers :
                   Stepping(p) /\ sync[p].pc = "send" =>
                      \A e \in Range(Batch(sync[p])) : e.task_id # t]_vars

C8_SuccessPath ==
    [][\A p \in Syncers : \A t \in TaskIds : \A s \in ServerIds :
          (/\ Stepping(p)
           /\ sync[p].pc = "remove"
           /\ Head(sync[p].resp).status = "success"
           /\ Head(sync[p].resp).client_id = t
           /\ Head(sync[p].resp).server_id = s)
          => /\ \A e \in Range(sync_queue') : e.task_id # t
             /\ tasks'[t].sync_status = "synced"
             /\ tasks'[t].last_synced_at # 0
             /\ tasks'[t].server_id = s]_vars

\* C9 - transport failure of a batch: every entry of the rejected batch is
\* in the queue and has its retry_count incremented by exactly 1, no entry of
\* the batch is removed; failed_items grows by one and one error record is
\* appended per entry of the batch, and the call returns success = false.
C9_BatchFailure ==
    [][\A p \in Syncers : \A id \in 1..MaxEntries :
          /\ (Stepping(p) /\ sync[p].pc = "berrq" /\ FailedEntry(p).id = id)
             => /\ id \in IdsIn(sync_queue)
                /\ id \in IdsIn(sync_queue')
                /\ RetryIn(sync_queue', id) = RetryIn(sync_queue, id) + 1
          /\ (Stepping(p) /\ sync[p].pc = "berrt")
             => /\ IdsIn(sync_queue') = IdsIn(sync_queue)
                /\ AfterBatchError(sync[p]).result.failed_items
                      = sync[p].result.failed_items + 1
                /\ Len(AfterBatchError(sync[p]).result.errors)
                      = Len(sync[p].result.errors) + 1
                /\ AfterBatchError(sync[p]).pc = "done"
                      => ~AfterBatchError(sync[p]).result.success]_vars

\* C10 - per-item failure: for a response item whose status is neither
\* Success nor Conflict, the entry that was submitted for that item (when
\* its row still holds the count the call read) has its retry_count
\* incremented by 1 and the item's error stored; failed_items grows by one
\* and one error record is appended.
C10_ItemFailure ==
    [][\A p \in Syncers : \A id \in 1..MaxEntries :
          /\ (/\ Stepping(p)
              /\ sync[p].pc = "errq"
              /\ FailedEntry(p).id = id
              /\ id \in IdsIn(sync_queue)
              /\ RetryIn(sync_queue, id) = FailedEntry(p).retry_count)
             => /\ id \in IdsIn(sync_queue')
                /\ RetryIn(sync_queue', id) = RetryIn(sync_queue, id) + 1
                /\ ErrorIn(sync_queue', id) = Head(sync[p].resp).error
          /\ (Stepping(p) /\ sync[p].pc = "errt")
             => /\ AfterItemError(sync[p]).result.failed_items
                      = sync[p].result.failed_items + 1
                /\ Len(AfterItemError(sync[p]).result.errors)
                      = Len(sync[p].result.errors) + 1]_vars

\* C11 - within one sync() call handleSyncError is applied at most once to
\* any queue entry, and the retry_count of an entry is changed by no step
\* other than the UPDATE sync_queue of handleSyncError.
C11_HandledOncePerCycle ==
    [][/\ \A p \in Syncers :
             Stepping(p) /\ sync[p].pc \in {"errq", "berrq"}
                => HandledEntry(p).id \notin sync[p].handled
       /\ \A id \in IdsIn(sync_queue) \cap IdsIn(sync_queue') :
             RetryIn(sync_queue', id) # RetryIn(sync_queue, id)
                => \E p \in Syncers :
                      /\ Stepping(p)
                      /\ sync[p].pc \in {"errq", "berrq"}
                      /\ HandledEntry(p).id = id]_vars

\* the position of entry id in the due list frame f read
PosIn(f, id) == CHOOSE n \in 1..Len(f.queueItems) : f.queueItems[n].id = id

\* C12 - per-record ordering: when a sync() call submits a batch, every
\* entry of the due list that belongs to the record of an entry of the batch
\* and was enqueued earlier stands before it in the due list, so it is
\* submitted earlier in the same batch or was submitted in an earlier batch;
\* the last entry submitted for a record is its latest one.
C12_PerRecordOrder ==
    [][\A p \in Syncers :
          Stepping(p) /\ sync[p].pc = "send" =>
             \A b \in Range(Batch(sync[p])) :
                \A a \in Range(sync[p].queueItems) :
                   a.task_id = b.task_id /\ a.created_at < b.created_at
                      => PosIn(sync[p], a.id) < PosIn(sync[p], b.id)]_vars

\* a call has submitted a batch with the later of two entries of one record
C12_Witness ==
    \E p \in Syncers :
       /\ sync[p].pc \in {"status", "errq", "berrq"}
       /\ \E b \in Range(Batch(sync[p])) :
             \E a \in Range(sync[p].queueItems) :
                a.task_id = b.task_id /\ a.created_at < b.created_at

\* C13 - empty-queue no-op: a sync() call that starts when no queue entry is
\* due returns at once with success = true, synced_items = 0, failed_items =
\* 0 and no error record; it submits no batch and leaves the queue and the
\* records as they are, so repeating it changes nothing either.
C13_EmptyQueueNoOp ==
    [][(/\ cycles' # cycles
        /\ \A e \in Range(sync_queue) : e.retry_count >= maxRetries)
       => /\ AfterRead(getSyncQueueItems(sync_queue)).pc = "done"
          /\ AfterRead(getSyncQueueItems(sync_queue)).result =
                [success |-> TRUE, synced_items |-> 0, failed_items |-> 0,
                 errors |-> <<>>]
          /\ sync' = sync
          /\ submitted' = submitted
          /\ sync_queue' = sync_queue
          /\ tasks' = tasks]_vars

\* sync() calls have run and returned with nothing ever due: a record exists
\* whose first queue entry is not yet written
C13_Witness ==
    /\ cycles > 1
    /\ Active = {}
    /\ submitted = {}
    /\ sync_queue = <<>>
    /\ \E t \in TaskIds : tasks[t].exists

\* C14 - conflict is not a failure: a response item with status Conflict
\* takes the success path (never the error path): its record is marked
\* Synced, the record's queue entries are removed, synced_items grows by one,
\* failed_items stays, and exactly one note is appended to the error list;
\* a call that returns from the success path with failed_items = 0 returns
\* success = true, notes or not.
C14_ConflictIsNotFailure ==
    [][\A p \in Syncers : \A t \in TaskIds :
          /\ sync[p].pc \in {"errq", "errt"}
                => Head(sync[p].resp).status \notin {"success", "conflict"}
          /\ (/\ Stepping(p)
              /\ sync[p].pc = "status"
              /\ Head(sync[p].resp).status = "conflict"
              /\ Head(sync[p].resp).client_id = t)
             => /\ tasks'[t].sync_status = "synced"
                /\ sync[p]'.pc = "remove"
          /\ (/\ Stepping(p)
              /\ sync[p].pc = "remove"
              /\ Head(sync[p].resp).status = "conflict"
              /\ Head(sync[p].resp).client_id = t)
             => /\ \A e \in Range(sync_queue') : e.task_id # t
                /\ AfterRemove(sync[p]).result.synced_items
                      = sync[p].result.synced_items + 1
                /\ AfterRemove(sync[p]).result.failed_items
                      = sync[p].result.failed_items
                /\ AfterRemove(sync[p]).result.errors
                      = Append(sync[p].result.errors,
                               [task_id |-> t, operation |-> "sync",
                                error |-> ConflictNote])
          /\ (/\ Stepping(p)
              /\ sync[p].pc = "remove"
              /\ AfterRemove(sync[p]).pc = "done"
              /\ AfterRemove(sync[p]).result.failed_items = 0)
             => AfterRemove(sync[p]).result.success]_vars

\* a call is about to finish the success path of a Conflict item and to
\* return success = true with a note in its error list
C14_Witness ==
    \E p \in Syncers :
       /\ sync[p].pc = "remove"
       /\ Head(sync[p].resp).status = "conflict"
       /\ AfterRemove(sync[p]).pc = "done"
       /\ AfterRemove(sync[p]).result.success
       /\ AfterRemove(sync[p]).result.errors # <<>>

\* C15 - last-write-wins: _resolveConflict returns the local version when
\* local.updated_at is strictly later, the server version when
\* server.updated_at is strictly later and the server version when the two
\* are equal; the winner is a function of the two arguments alone.
C15_LastWriteWins ==
    resolved # <<>> =>
       /\ localTask.updated_at.time > serverTask.updated_at.time
             => resolved[1] = localTask
       /\ serverTask.updated_at.time > localTask.updated_at.time
             => resolved[1] = serverTask
       /\ serverTask.updated_at.time = localTask.updated_at.time
             => resolved[1] = serverTask

\* a conflict between versions of equal updated_at and different content has
\* been resolved
C15_Witness ==
    /\ resolved # <<>>
    /\ localTask.updated_at = serverTask.updated_at
    /\ localTask.title # serverTask.title

\* C16 (as claimed) - _resolveConflict is commutative: for all versions A
\* and B, also of equal updated_at and different content, resolve(A, B) and
\* resolve(B, A) return a record of the same content.
C16_Commutative ==
    resolved # <<>> /\ resolvedSwapped # <<>> => resolved = resolvedSwapped

\* C16 (amended) - for all versions A and B of different updated_at,
\* resolve(A, B) and resolve(B, A) return the same record; for equal
\* updated_at each call returns its second argument.
C16_CommutativeUnlessTie ==
    resolved # <<>> /\ resolvedSwapped # <<>> =>
       /\ localTask.updated_at # serverTask.updated_at
             => resolved = resolvedSwapped
       /\ localTask.updated_at = serverTask.updated_at
             => resolved[1] = serverTask /\ resolvedSwapped[1] = localTask

\* both orders of a conflict between versions of different updated_at and
\* different content have been resolved
C16_Witness ==
    /\ resolved # <<>>
    /\ resolvedSwapped # <<>>
    /\ localTask.updated_at # serverTask.updated_at
    /\ localTask.title # serverTask.title

\* the frames the next step of the sync() call in frame f may leave: the
\* awaited call succeeds, or it fails
Outcomes(f) ==
    {Thrown(f, StoreError)} \cup
    (IF f.pc = "idle" THEN {AfterRead(getSyncQueueItems(sync_queue))}
     ELSE IF f.pc = "send" THEN {Thrown(f, TransportError)}
     ELSE IF f.pc = "remove" THEN {AfterRemove(f)}
     ELSE IF f.pc = "errt" THEN {AfterItemError(f)}
     ELSE IF f.pc = "berrt" THEN {AfterBatchError(f)}
     ELSE {})

\* C17 - no error escapes sync(): whatever await of a sync() call fails (the
\* read of the due list, the batch submission, a store write while handling
\* a response item or a rejected batch), the error is caught, and a call in
\* which a step has failed returns a result with success = false.
C17_NoErrorEscapesSync ==
    \A p \in Syncers :
       /\ sync[p].pc # "escaped"
       /\ \A r \in Outcomes(sync[p]) :
             /\ r.pc # "escaped"
             /\ r.pc = "done" /\ r.threw => ~r.result.success

\* a call in which a step failed after an item had been synced is about to
\* return from the handling of the failed batch
C17_Witness ==
    \E p \in Syncers :
       /\ sync[p].pc = "berrt"
       /\ sync[p].threw
       /\ submitted # {}
       /\ sync[p].result.synced_items > 0
       /\ AfterBatchError(sync[p]).pc = "done"

\* C19 - setup failure: a sync() call whose read of the due list fails
\* submits no batch, changes no queue entry and no record, and returns
\* success = false, synced_items = 0, failed_items = 0 and exactly one error
\* record, which carries the sentinel record id.
C19_SetupFailure ==
    [][setupErrors' # setupErrors =>
          /\ setupErrors' = Append(setupErrors,
                [success |-> FALSE, synced_items |-> 0, failed_items |-> 0,
                 errors |-> <<[task_id |-> SentinelId, operation |-> "sync",
                               error |-> StoreError]>>])
          /\ submitted' = submitted
          /\ sync_queue' = sync_queue
          /\ tasks' = tasks
          /\ sync' = sync]_vars

\* the read of the due list has failed while an entry was due
C19_Witness ==
    /\ setupErrors # <<>>
    /\ submitted = {}
    /\ DueIn(sync_queue) # {}

\* C18 - no error escapes getSyncStatus(): a failing store query never leaves
\* the call as an error.
C18_NoErrorEscapesStatus == syncStatus.pc # "escaped"

\* C20 - pending_sync_count is the number of records whose sync_status is
\* Pending or Error at the time the status is read; Failed and Synced
\* records are not counted, so the step that escalates a Pending or Error
\* record to Failed lowers the count by one.
C20_PendingSyncCount ==
    [][/\ (syncStatus.pc = "idle" /\ syncStatus'.pc = "last")
          => syncStatus'.pending_sync_count =
                Cardinality({t \in TaskIds :
                                tasks[t].sync_status \in {"pending", "error"}})
       /\ \A t \in TaskIds :
             (/\ tasks[t].sync_status \in {"pending", "error"}
              /\ tasks'[t].sync_status = "failed")
             => PendingSyncCount(tasks') = PendingSyncCount(tasks) - 1]_vars

\* the status has counted one record while another record is Failed or
\* Synced
C20_Witness ==
    /\ syncStatus.pc = "last"
    /\ syncStatus.pending_sync_count = 1
    /\ \E t \in TaskIds : tasks[t].sync_status \in {"failed", "synced"}

\* C21 - per-record draining order is never skipped: a sync() call never
\* submits a batch with an entry of a record while an entry of that record
\* enqueued earlier is still in the queue (so not accepted by the remote) and
\* is not submitted in the same batch.
C21_DrainingOrderNotSkipped ==
    [][\A p \in Syncers :
          Stepping(p) /\ sync[p].pc = "send" =>
             \A b \in Range(Batch(sync[p])) : \A a \in Range(sync_queue) :
                a.task_id = b.task_id /\ a.created_at < b.created_at
                   => a.id \in IdsIn(Batch(sync[p]))]_vars

\* C22 - a local create, update or delete that goes through sets the
\* record's sync_status to Pending and then appends exactly one queue entry
\* for the record, with retry_count 0 and the operation performed, leaving
\* the entries already queued as they are; an update or delete of a record
\* that does not exist or is soft-deleted goes no further than its check: it
\* changes no record and appends no entry.
C22_LocalOperationEnqueuesOne ==
    [][/\ \A t \in TaskIds :
             (client.pc = "idle" /\ client'.pc = "enqueue" /\ client'.task = t)
             => /\ tasks'[t].sync_status = "pending"
                /\ client'.op \in {"update", "delete"}
                      => tasks[t].exists /\ ~tasks[t].is_deleted
                /\ client'.op = "create" => ~tasks[t].exists
                /\ sync_queue' = sync_queue
       /\ (client.pc = "enqueue" /\ client' # client)
             => /\ Len(sync_queue') = Len(sync_queue) + 1
                /\ SubSeq(sync_queue', 1, Len(sync_queue)) = sync_queue
                /\ sync_queue'[Len(sync_queue')].task_id = client.task
                /\ sync_queue'[Len(sync_queue')].operation = client.op
                /\ sync_queue'[Len(sync_queue')].retry_count = 0
                /\ sync_queue'[Len(sync_queue')].id \notin IdsIn(sync_queue)
                /\ tasks' = tasks
       /\ client' = client => Len(sync_queue') <= Len(sync_queue)
       /\ \A t \in TaskIds :
             (/\ ~tasks[t].exists \/ tasks[t].is_deleted
              /\ client' # client
              /\ tasks'[t] # tasks[t])
             => client'.op = "create" /\ client'.task = t]_vars

\* a record the earlier run left live has been deleted locally: its delete
\* entry is queued untried, the record is soft-deleted and Pending, and a
\* further update or delete of it can still be asked for
C22_Witness ==
    /\ client.pc = "idle"
    /\ nextId < MaxEntries
    /\ Len(sync_queue) = 1
    /\ sync_queue[1].operation = "delete"
    /\ sync_queue[1].retry_count = 0
    /\ tasks[sync_queue[1].task_id].is_deleted
    /\ tasks[sync_queue[1].task_id].sync_status = "pending"

\* C23 - no stuck records: when nothing is running (local operations and
\* sync() cycles have run one at a time and have completed), every record
\* whose sync_status is Pending or Error has at least one queue entry with
\* retry_count < maxRetries.
C23_NoStuckRecords ==
    (Active = {} /\ client.pc = "idle")
    => \A t \in TaskIds :
          (tasks[t].exists /\ tasks[t].sync_status \in {"pending", "error"})
          => \E e \in Range(sync_queue) :
                e.task_id = t /\ e.retry_count < maxRetries

\* the frame the sync() call in frame f returns with at its next step, if that
\* step is its last and no store call fails in it
Returns(f) ==
    {r \in (IF f.pc = "idle" THEN {AfterRead(getSyncQueueItems(sync_queue))}
            ELSE IF f.pc = "remove" THEN {AfterRemove(f)}
            ELSE IF f.pc = "errt" THEN {AfterItemError(f)}
            ELSE IF f.pc = "berrt" THEN {AfterBatchError(f)}
            ELSE {}) : r.pc = "done"}

\* C24 - result accounting: when every batch is answered with one response
\* item per submitted entry or its submission throws, the result a sync()
\* call returns has synced_items + failed_items equal to the number of
\* entries that were due when the call read the queue, and success = true
\* exactly when failed_items = 0.
C24_ResultAccounting ==
    \A p \in Syncers : \A r \in Returns(sync[p]) :
       /\ r.result.synced_items + r.result.failed_items = Len(r.queueItems)
       /\ r.result.success = (r.result.failed_items = 0)

\* a call that has synced one entry and is handling the error item of another
\* is about to return
C24_Witness ==
    \E p \in Syncers :
       /\ sync[p].pc = "errt"
       /\ sync[p].result.synced_items > 0
       /\ Len(sync[p].queueItems) = 2
       /\ Returns(sync[p]) # {}

\* C25 - offline guard of POST /sync: when the connectivity probe fails the
\* handler answers 503 without calling sync(): the step submits no batch,
\* changes no queue entry (no retry_count grows) and no record, no sync()
\* call has been started since the request came in, and a sync() call is
\* started only by a request whose probe succeeded.
C25_OfflineGuard ==
    [][/\ (postSync.pc = "probe" /\ postSync' # postSync /\ ~postSync'.online)
             => /\ postSync'.pc = "idle"
                /\ postSync'.status = 503
                /\ cycles' = postSync.cycle
                /\ UNCHANGED <<sync, submitted, failures, sync_queue, tasks>>
       /\ cycles' # cycles => postSync.pc = "sync" /\ postSync.online
       /\ (submitted' # submitted \/ Active # {})
             => postSync.pc = "sync" /\ postSync.online]_vars

\* a request has been answered 503 while an entry was due: no sync() call has
\* started and nothing has been submitted
C25_Witness ==
    /\ postSync.pc = "idle"
    /\ postSync.status = 503
    /\ DueIn(sync_queue) # {}
    /\ cycles = 0
    /\ submitted = {}

====
